---------------------------- MODULE Spec2Model ----------------------------
(***************************************************************************)
(* Book-Brief-Ai: the chunking and summarization pipeline of               *)
(* Backend/utils/fileProcessor.js and the /api/summarize handler of        *)
(* Backend/server.js.                                                      *)
(*                                                                         *)
(* Strings.  A JavaScript string is a sequence of runs [c, n]: n >= 1      *)
(* copies of the character c, adjacent runs holding different characters,  *)
(* so that equal strings have equal representations and a document of      *)
(* 30,000 characters is a handful of runs.  In the texts "a" and "b" are   *)
(* the characters that are neither white space nor terminators, "." is a   *)
(* sentence terminator ([.!?]), " " and "\n" are white space.              *)
(***************************************************************************)
EXTENDS Integers, Sequences, FiniteSets, TLC

\* ------------------------------------------------------------------------
\* Strings
\* ------------------------------------------------------------------------

Run(c, n) == [c |-> c, n |-> n]

\* c repeated n times ("".padEnd(n, c)); the empty string when n = 0
Rep(c, n) == IF n <= 0 THEN <<>> ELSE <<Run(c, n)>>

\* s + t
Cat(s, t) ==
  IF s = <<>> THEN t
  ELSE IF t = <<>> THEN s
  ELSE IF s[Len(s)].c = t[1].c
       THEN SubSeq(s, 1, Len(s) - 1)
              \o <<Run(t[1].c, s[Len(s)].n + t[1].n)>> \o Tail(t)
       ELSE s \o t

RECURSIVE StrLen(_)
\* s.length
StrLen(s) == IF s = <<>> THEN 0 ELSE s[1].n + StrLen(Tail(s))

RECURSIVE Lit(_)
\* the string whose characters are the tuple cs
Lit(cs) ==
  IF cs = <<>> THEN <<>>
  ELSE IF Len(cs) = 1 THEN Rep(cs[1], 1)
  ELSE Cat(Lit(SubSeq(cs, 1, Len(cs) \div 2)),
           Lit(SubSeq(cs, Len(cs) \div 2 + 1, Len(cs))))

\* the characters String.prototype.trim removes and the regex class \s matches
IsSpace(c) == c \in {" ", "\n"}

\* the regex class [.!?]
IsTerminator(c) == c \in {".", "!", "?"}

RECURSIVE trimStart(_)
trimStart(s) ==
  IF s # <<>> /\ IsSpace(s[1].c) THEN trimStart(Tail(s)) ELSE s

RECURSIVE trimEnd(_)
trimEnd(s) ==
  IF s # <<>> /\ IsSpace(s[Len(s)].c)
  THEN trimEnd(SubSeq(s, 1, Len(s) - 1)) ELSE s

\* s.trim()
trim(s) == trimEnd(trimStart(s))

RECURSIVE Take(_, _)
\* s.substring(0, k), k >= 0
Take(s, k) ==
  IF k <= 0 \/ s = <<>> THEN <<>>
  ELSE IF s[1].n <= k THEN <<s[1]>> \o Take(Tail(s), k - s[1].n)
  ELSE <<Run(s[1].c, k)>>

RECURSIVE Drop(_, _)
\* s.substring(k), k >= 0
Drop(s, k) ==
  IF k <= 0 \/ s = <<>> THEN s
  ELSE IF s[1].n <= k THEN Drop(Tail(s), k - s[1].n)
  ELSE <<Run(s[1].c, s[1].n - k)>> \o Tail(s)

\* s.slice(i, j), 0 <= i <= j
slice(s, i, j) == Drop(Take(s, j), i)

RECURSIVE join(_, _)
\* parts.join(sep)
join(parts, sep) ==
  IF parts = <<>> THEN <<>>
  ELSE IF Len(parts) = 1 THEN parts[1]
  ELSE Cat(Cat(parts[1], sep), join(Tail(parts), sep))

RECURSIVE SplitBlankLine(_, _)
\* s.split('\n\n'), cur being the piece under construction: a run of k
\* newlines holds k \div 2 separators, matched left to right, and a newline
\* left over begins the next piece
SplitBlankLine(s, cur) ==
  IF s = <<>> THEN <<cur>>
  ELSE IF s[1].c = "\n" /\ s[1].n >= 2
       THEN <<cur>> \o [i \in 1..((s[1].n \div 2) - 1) |-> <<>>]
              \o SplitBlankLine(Tail(s), Rep("\n", s[1].n % 2))
       ELSE SplitBlankLine(Tail(s), Cat(cur, <<s[1]>>))

RECURSIVE SplitSentences(_, _)
\* s.split(/(?<=[.!?])\s+/), cur being the piece under construction: a match
\* starts at white space that directly follows a terminator and takes the
\* whole stretch of white space
SplitSentences(s, cur) ==
  IF s = <<>> THEN <<cur>>
  ELSE IF IsSpace(s[1].c) /\ cur # <<>> /\ IsTerminator(cur[Len(cur)].c)
       THEN <<cur>> \o SplitSentences(trimStart(s), <<>>)
       ELSE SplitSentences(Tail(s), Cat(cur, <<s[1]>>))

\* ------------------------------------------------------------------------
\* fileProcessor.js: splitTextIntoChunks
\* ------------------------------------------------------------------------

\* const pushCurrent = () => { if (current.trim()) chunks.push(...); current = '' }
pushCurrent(st) ==
  [chunks  |-> IF trim(st.current) # <<>>
               THEN Append(st.chunks, trim(st.current)) ELSE st.chunks,
   current |-> <<>>]

RECURSIVE HardSplitWide(_, _, _)
\* HardSplit with slices one character too long
HardSplitWide(sentence, maxChars, i) ==
  IF i >= StrLen(sentence) THEN <<>>
  ELSE <<trim(slice(sentence, i, i + maxChars + 1))>>
         \o HardSplitWide(sentence, maxChars, i + maxChars)

RECURSIVE HardSplit(_, _, _)
\* for (let i = 0; i < sentence.length; i += maxChars) chunks.push(slice.trim())
HardSplit(sentence, maxChars, i) ==
  IF i >= StrLen(sentence) THEN <<>>
  ELSE <<trim(slice(sentence, i, i + maxChars))>>
         \o HardSplit(sentence, maxChars, i + maxChars)

\* SentenceStep that forgets to push the sentence group it replaces
SentenceStepNoPush(ss, sentence, maxChars) ==
  LET t == IF ss.sentenceChunk # <<>>
           THEN Cat(Cat(ss.sentenceChunk, Rep(" ", 1)), sentence)
           ELSE sentence
  IN IF StrLen(t) > maxChars
     THEN IF StrLen(sentence) > maxChars
          THEN [chunks |-> ss.chunks \o HardSplit(sentence, maxChars, 0),
                sentenceChunk |-> <<>>]
          ELSE [chunks |-> ss.chunks, sentenceChunk |-> sentence]
     ELSE [ss EXCEPT !.sentenceChunk = t]

\* one iteration of the loop over the sentences of an over-long paragraph
SentenceStep(ss, sentence, maxChars) ==
  LET t == IF ss.sentenceChunk # <<>>
           THEN Cat(Cat(ss.sentenceChunk, Rep(" ", 1)), sentence)
           ELSE sentence
      pushed == IF ss.sentenceChunk # <<>>
                THEN Append(ss.chunks, trim(ss.sentenceChunk))
                ELSE ss.chunks
  IN IF StrLen(t) > maxChars
     THEN IF StrLen(sentence) > maxChars
          THEN [chunks |-> pushed \o HardSplit(sentence, maxChars, 0),
                sentenceChunk |-> <<>>]
          ELSE [chunks |-> pushed, sentenceChunk |-> sentence]
     ELSE [ss EXCEPT !.sentenceChunk = t]

RECURSIVE SentenceLoop(_, _, _)
SentenceLoop(sentences, maxChars, ss) ==
  IF sentences = <<>> THEN ss
  ELSE SentenceLoop(Tail(sentences), maxChars,
                    SentenceStep(ss, sentences[1], maxChars))

\* one iteration of the loop over the paragraphs
ParagraphStep(st, para, maxChars) ==
  LET trimmed == trim(para)
      tentative == IF st.current # <<>>
                   THEN Cat(Cat(st.current, Rep("\n", 2)), trimmed)
                   ELSE trimmed
      flushed == IF st.current # <<>> THEN pushCurrent(st) ELSE st
      ss == SentenceLoop(SplitSentences(trimmed, <<>>), maxChars,
                         [chunks |-> flushed.chunks, sentenceChunk |-> <<>>])
  IN IF trimmed = <<>> THEN st
     ELSE IF StrLen(tentative) <= maxChars
          THEN [st EXCEPT !.current = tentative]
     ELSE IF StrLen(trimmed) <= maxChars
          THEN [flushed EXCEPT !.current = trimmed]
     ELSE [chunks  |-> ss.chunks,
           current |-> IF ss.sentenceChunk # <<>>
                       THEN ss.sentenceChunk ELSE flushed.current]

RECURSIVE ParagraphLoop(_, _, _)
ParagraphLoop(paragraphs, maxChars, st) ==
  IF paragraphs = <<>> THEN st
  ELSE ParagraphLoop(Tail(paragraphs), maxChars,
                     ParagraphStep(st, paragraphs[1], maxChars))

splitTextIntoChunks(text, maxChars) ==
  LET st == ParagraphLoop(SplitBlankLine(text, <<>>), maxChars,
                          [chunks |-> <<>>, current |-> <<>>])
  IN IF st.current # <<>> THEN pushCurrent(st).chunks ELSE st.chunks

\* ------------------------------------------------------------------------
\* fileProcessor.js: summarizeChunk, combineSummaries, compressSummary and
\* the length budgets of summarizeText
\*
\* A model invocation (model.generateContent and response.text()) settles
\* with an outcome [ok, text]: ok with the text the model returned, or not
\* ok with the message of the error it threw.
\* ------------------------------------------------------------------------

CHARS_PER_WORD == 5

SingleCallLimit == 30000

ChunkChars == 8000

Max(a, b) == IF a >= b THEN a ELSE b

ErrSectionPrefix ==
  Lit(<<"[", "E", "r", "r", "o", "r", " ", "s", "u", "m", "m", "a", "r",
        "i", "z", "i", "n", "g", " ", "t", "h", "i", "s", " ", "s", "e",
        "c", "t", "i", "o", "n", ":", " ">>)

SummarizationFailedPrefix ==
  Lit(<<"S", "u", "m", "m", "a", "r", "i", "z", "a", "t", "i", "o", "n",
        " ", "f", "a", "i", "l", "e", "d", ":", " ">>)

NoTextContentMessage ==
  Lit(<<"N", "o", " ", "t", "e", "x", "t", " ", "c", "o", "n", "t", "e",
        "n", "t", " ", "t", "o", " ", "s", "u", "m", "m", "a", "r", "i",
        "z", "e">>)

\* summarizeChunk ignoring a failed invocation's error: the error propagates
summarizeChunkRethrow(text, targetWords, outcome) ==
  IF outcome.ok THEN [thrown |-> FALSE, value |-> trim(outcome.text)]
  ELSE [thrown |-> TRUE, value |-> outcome.text]

\* what summarizeChunk returns when its one model invocation settles with
\* outcome: the trimmed text, or the tagged placeholder; it never throws
summarizeChunk(text, targetWords, outcome) ==
  IF outcome.ok THEN [thrown |-> FALSE, value |-> trim(outcome.text)]
  ELSE [thrown |-> FALSE,
        value |-> Cat(Cat(ErrSectionPrefix, outcome.text), Lit(<<"]">>))]

\* combineSummaries calling the model for a single summary too
combineNeedsModelAlways(summaries) == TRUE

\* whether combineSummaries invokes the model: not for a single summary
combineNeedsModel(summaries) == Len(summaries) # 1

\* combineSummaries whose fallback keeps only the first summary
combineSummariesFirstOnly(summaries, targetWords, outcome) ==
  IF Len(summaries) = 1 THEN summaries[1]
  ELSE IF outcome.ok THEN trim(outcome.text)
  ELSE summaries[1]

\* what combineSummaries returns; outcome is that of its model invocation
\* (not read when there is a single summary)
combineSummaries(summaries, targetWords, outcome) ==
  IF Len(summaries) = 1 THEN summaries[1]
  ELSE IF outcome.ok THEN trim(outcome.text)
  ELSE join(summaries, Rep("\n", 2))

\* compressSummary whose fallback appends the marker to every summary
compressSummaryAlwaysMarked(summary, maxChars, outcome) ==
  IF outcome.ok THEN trim(outcome.text)
  ELSE Cat(Take(summary, maxChars), Rep(".", 3))

\* what compressSummary returns when its model invocation settles with outcome
compressSummary(summary, maxChars, outcome) ==
  IF outcome.ok THEN trim(outcome.text)
  ELSE Cat(Take(summary, maxChars),
           IF StrLen(summary) > maxChars THEN Rep(".", 3) ELSE <<>>)

\* Math.max(200, Math.floor(text.length * 0.50))
totalTargetCharLength(text) == Max(200, (StrLen(text) * 50) \div 100)

\* maxFinalCharLength with Math.round in the place of Math.floor
maxFinalCharLengthRounded(text) == Max(200, (StrLen(text) * 55 + 50) \div 100)

\* Math.max(200, Math.floor(text.length * 0.55)): the double nearest 0.55
\* lies above it, so the product floors to (55 * length) \div 100
maxFinalCharLength(text) == Max(200, (StrLen(text) * 55) \div 100)

\* Math.floor(totalTargetCharLength / CHARS_PER_WORD)
totalTargetWords(text) == totalTargetCharLength(text) \div CHARS_PER_WORD

targetCharLengthPerChunk(text, n) ==
  Max(50, totalTargetCharLength(text) \div n)

targetWordsPerChunk(text, n) ==
  Max(50, targetCharLengthPerChunk(text, n) \div CHARS_PER_WORD)

\* Math.floor(text.length * 0.5)
emergencyTargetChars(text) == (StrLen(text) * 5) \div 10

\* Promise.all resolving in the order in which the promises settled
PromiseAllCompletionOrder(tasks, settled) ==
  [k \in 1..Len(tasks) |-> tasks[settled[k]].value]

\* Promise.all over the mapped chunks: the values in the order of the
\* promises, whatever the order (settled) in which they settled
PromiseAll(tasks, settled) ==
  [k \in 1..Len(tasks) |-> tasks[k].value]

\* ------------------------------------------------------------------------
\* server.js: callGeminiAPI
\*
\* A call is a record: where it stands (invoking the model, waiting out a
\* backoff, returned), the attempt it is at, its parameters, the number of
\* model invocations made, the outcomes of those that settled, the waits
\* made, and the value returned.
\* ------------------------------------------------------------------------

DefaultRetries == 3

DefaultDelay == 1000

ErrChunkPrefix ==
  Lit(<<"[", "E", "r", "r", "o", "r", " ", "s", "u", "m", "m", "a", "r",
        "i", "z", "i", "n", "g", " ", "c", "h", "u", "n", "k", ":", " ">>)

MaxRetriesExceeded ==
  Lit(<<"[", "E", "r", "r", "o", "r", ":", " ", "M", "a", "x", " ", "r",
        "e", "t", "r", "i", "e", "s", " ", "e", "x", "c", "e", "e", "d",
        "e", "d", "]">>)

\* s.includes(sub)
includes(s, sub) ==
  \E i \in 0..(StrLen(s) - StrLen(sub)) : slice(s, i, i + StrLen(sub)) = sub

\* isRetryable taking every error for a transient one
isRetryableAlways(message) == TRUE

\* lines 133-136
isRetryable(message) ==
  \/ includes(message, Lit(<<"5", "0", "3">>))
  \/ includes(message, Lit(<<"o", "v", "e", "r", "l", "o", "a", "d", "e", "d">>))
  \/ includes(message, Lit(<<"4", "2", "9">>))
  \/ includes(message, Lit(<<"r", "a", "t", "e", " ", "l", "i", "m", "i", "t">>))

\* Math.pow that does not grow: a constant backoff
Pow2Flat(n) == 1

RECURSIVE Pow2(_)
\* Math.pow(2, n), n >= 0
Pow2(n) == IF n <= 0 THEN 1 ELSE 2 * Pow2(n - 1)

\* callGeminiAPI(promptText, retries, delay) up to its first suspension: the
\* first model invocation, or the return after a loop that never ran
callGeminiAPI(retries, delay) ==
  IF 1 <= retries
  THEN [pc |-> "invoking", attempt |-> 1, retries |-> retries, delay |-> delay,
        invocations |-> 1, outcomes |-> <<>>, waits |-> <<>>, value |-> <<>>]
  ELSE [pc |-> "returned", attempt |-> 1, retries |-> retries, delay |-> delay,
        invocations |-> 0, outcomes |-> <<>>, waits |-> <<>>,
        value |-> MaxRetriesExceeded]

\* AttemptSettled retrying once more than retries allows
AttemptSettledOneMore(call, outcome) ==
  LET seen == [call EXCEPT !.outcomes = Append(@, outcome)]
  IN IF outcome.ok
     THEN [seen EXCEPT !.pc = "returned", !.value = trim(outcome.text)]
     ELSE IF isRetryable(outcome.text) /\ call.attempt <= call.retries
          THEN [seen EXCEPT !.pc = "waiting",
                            !.waits = Append(@, call.delay * Pow2(call.attempt - 1))]
          ELSE [seen EXCEPT !.pc = "returned",
                            !.value = Cat(Cat(ErrChunkPrefix, outcome.text),
                                          Lit(<<"]">>))]

\* lines 122-146: the model invocation of the current attempt settles
AttemptSettled(call, outcome) ==
  LET seen == [call EXCEPT !.outcomes = Append(@, outcome)]
  IN IF outcome.ok
     THEN [seen EXCEPT !.pc = "returned", !.value = trim(outcome.text)]
     ELSE IF isRetryable(outcome.text) /\ call.attempt < call.retries
          THEN [seen EXCEPT !.pc = "waiting",
                            !.waits = Append(@, call.delay * Pow2(call.attempt - 1))]
          ELSE [seen EXCEPT !.pc = "returned",
                            !.value = Cat(Cat(ErrChunkPrefix, outcome.text),
                                          Lit(<<"]">>))]

\* lines 142 and 120-122: the backoff timer fires and the next attempt
\* invokes the model
BackoffElapsed(call) ==
  [call EXCEPT !.pc = "invoking", !.attempt = @ + 1, !.invocations = @ + 1]

\* ------------------------------------------------------------------------
\* server.js: countTokens, splitTextIntoSections, extractTextFromFile and the
\* parameters of the /api/summarize handler
\* ------------------------------------------------------------------------

ModelContextSize == 16000

PromptReserve == 1000

Min(a, b) == IF a <= b THEN a ELSE b

RECURSIVE SpaceStretches(_, _)
\* the number of maximal stretches of white space of s; inSpace: the
\* character before s is white space
SpaceStretches(s, inSpace) ==
  IF s = <<>> THEN 0
  ELSE IF IsSpace(s[1].c)
       THEN (IF inSpace THEN 0 ELSE 1) + SpaceStretches(Tail(s), TRUE)
       ELSE SpaceStretches(Tail(s), FALSE)

\* text.split(/\s+/).length
WordCount(text) == SpaceStretches(text, FALSE) + 1

\* countTokens.  The encoder of tiktoken is not part of the repository: when
\* it fails ("heuristic") the count is Math.ceil(words / 0.75); when it
\* works the count is that of the encoder, for which one token per
\* character ("characters"), the most a byte-pair encoder gives, stands in
countTokens(text, tokenizer) ==
  IF tokenizer = "heuristic" THEN (4 * WordCount(text) + 2) \div 3
  ELSE StrLen(text)

\* one iteration of the loop of splitTextIntoSections (separator '\n\n')
SectionStep(st, paragraph, maxTokens, tokenizer) ==
  LET tentativeSection == IF st.currentSection # <<>>
                          THEN Cat(Cat(st.currentSection, Rep("\n", 2)), paragraph)
                          ELSE paragraph
      tokens == countTokens(tentativeSection, tokenizer)
  IN IF trim(paragraph) = <<>> THEN st
     ELSE IF tokens > maxTokens
          THEN IF st.currentSection # <<>>
               THEN [sections |-> Append(st.sections, trim(st.currentSection)),
                     currentSection |-> paragraph]
               ELSE [sections |-> Append(st.sections, trim(paragraph)),
                     currentSection |-> <<>>]
          ELSE [st EXCEPT !.currentSection = tentativeSection]

RECURSIVE SectionLoop(_, _, _, _)
SectionLoop(paragraphs, maxTokens, tokenizer, st) ==
  IF paragraphs = <<>> THEN st
  ELSE SectionLoop(Tail(paragraphs), maxTokens, tokenizer,
                   SectionStep(st, paragraphs[1], maxTokens, tokenizer))

splitTextIntoSections(text, maxTokens, tokenizer) ==
  LET st == SectionLoop(SplitBlankLine(text, <<>>), maxTokens, tokenizer,
                        [sections |-> <<>>, currentSection |-> <<>>])
  IN IF st.currentSection # <<>>
     THEN Append(st.sections, trim(st.currentSection)) ELSE st.sections

\* line 213: Math.max(200, Math.min(2000, Math.floor(words * 0.5)))
targetSummaryWords(text) == Max(200, Min(2000, WordCount(text) \div 2))

\* calculateSummarizationParams(targetSummaryWords, 16000).summaryInputSize
summaryInputSize(targetSummarySize) ==
  ModelContextSize - targetSummarySize - PromptReserve

NoFileUploaded ==
  Lit(<<"N", "o", " ", "f", "i", "l", "e", " ", "u", "p", "l", "o", "a",
        "d", "e", "d">>)

KeyNotConfigured ==
  Lit(<<"G", "E", "M", "I", "N", "I", "_", "A", "P", "I", "_", "K", "E",
        "Y", " ", "n", "o", "t", " ", "c", "o", "n", "f", "i", "g", "u",
        "r", "e", "d", " ", "o", "n", " ", "s", "e", "r", "v", "e", "r">>)

FailedToParsePdf ==
  Lit(<<"F", "a", "i", "l", "e", "d", " ", "t", "o", " ", "p", "a", "r",
        "s", "e", " ", "P", "D", "F", " ", "f", "i", "l", "e">>)

UnsupportedFormat ==
  Lit(<<"U", "n", "s", "u", "p", "p", "o", "r", "t", "e", "d", " ", "f",
        "i", "l", "e", " ", "f", "o", "r", "m", "a", "t", ".", " ", "P",
        "l", "e", "a", "s", "e", " ", "u", "p", "l", "o", "a", "d", " ",
        ".", "t", "x", "t", " ", "o", "r", " ", ".", "p", "d", "f">>)

\* extractTextFromFile: the text of a .txt file or of a .pdf file that
\* parses, an error for a .pdf file that does not and for any other name
extractTextFromFile(file) ==
  IF file.kind \in {"txt", "pdf"} THEN [thrown |-> FALSE, value |-> file.text]
  ELSE IF file.kind = "badpdf" THEN [thrown |-> TRUE, value |-> FailedToParsePdf]
  ELSE [thrown |-> TRUE, value |-> UnsupportedFormat]

\* res.status(status).json({ error })
ErrorResponse(status, message) ==
  [status |-> status, fields |-> {"error"}, error |-> message,
   summary |-> <<>>, chunks |-> 0]

\* res.json({ summary: finalSummary, chunks: chunks.length })
SummaryResponse(allSummaries, n) ==
  [status |-> 200, fields |-> {"summary", "chunks"}, error |-> <<>>,
   summary |-> join(allSummaries, Rep("\n", 2)), chunks |-> n]

\* ------------------------------------------------------------------------
\* Inputs of the chunker
\* ------------------------------------------------------------------------

MaxTextLen == 5

MaxParagraphs == 3

Alphabet == {"a", "b", ".", " ", "\n"}

\* every text of at most MaxTextLen characters over the alphabet
ShortTexts ==
  {Lit(cs) : cs \in UNION {[1..n -> Alphabet] : n \in 0..MaxTextLen}}

\* paragraphs of longer texts: words, sentences, a blank paragraph
ParagraphPool ==
  {Lit(<<"a">>), Lit(<<"b", "a">>), Lit(<<"a", " ", "b">>),
   Lit(<<"b", ".", " ", "a">>), Lit(<<".", ".", ".", " ", "b">>),
   Lit(<<"a", "b", "a", ".", " ", "b">>), Lit(<<"a", "b", "b", "a", "b">>),
   Lit(<<" ">>)}

\* up to MaxParagraphs paragraphs of the pool, separated by blank lines
LongTexts ==
  {join(ps, Rep("\n", 2)) :
     ps \in UNION {[1..n -> ParagraphPool] : n \in 1..MaxParagraphs}}

ChunkSizes == {1, 2, 3, 4}

\* ------------------------------------------------------------------------
\* Inputs of summarizeText
\* ------------------------------------------------------------------------

BlankLine == Rep("\n", 2)

Documents ==
  {<<>>,
   Rep(" ", 3),
   Rep("a", 100),
   Rep("a", 1000),
   Cat(Rep(" ", 15000), Cat(BlankLine, Rep(" ", 15000))),
   Cat(Rep("a", 8000), Rep(" ", 22000)),
   Cat(Rep(" ", 30000), Lit(<<"a", ".", " ", "a">>)),
   Cat(join(<<Rep("a", 8000), Rep("a", 7000)>>, BlankLine), Rep(" ", 15000)),
   Cat(join(<<Rep("a", 8000), Rep("a", 7000), Rep("a", 8000)>>, BlankLine),
       Rep(" ", 7000))}

\* what the model answers: short, padded with white space, blank, longer
\* than a small document, over the ceiling of a large one, longer than any
ModelTexts ==
  {Rep("a", 1), Lit(<<" ", "a", "a", "\n">>), Rep(" ", 2), Rep("a", 600),
   Rep("a", 20000), Rep("a", 40001)}

\* the messages of the errors the model throws
ErrorMessages == {Lit(<<"5", "0", "3">>), Lit(<<"b", "a", "d">>)}

ModelOutcomes ==
  {[ok |-> TRUE, text |-> t] : t \in ModelTexts}
    \cup {[ok |-> FALSE, text |-> m] : m \in ErrorMessages}

\* ------------------------------------------------------------------------
\* Inputs of the budgets of summarizeText
\* ------------------------------------------------------------------------

MaxBudgetLen == 420

MaxChunks == 5

\* the lengths around the floors of 200 characters, and lengths of documents
\* that are chunked
BudgetLengths == (0..MaxBudgetLen) \cup {29999, 30000, 30003, 1000003}

\* two texts of each length: the budgets read the length only
BudgetTexts ==
  {Rep("a", n) : n \in BudgetLengths}
    \cup {Cat(Rep("a", n \div 2), Rep(" ", n - (n \div 2))) : n \in BudgetLengths}

\* ------------------------------------------------------------------------
\* Inputs of compressSummary
\* ------------------------------------------------------------------------

MaxSummaryLen == 4

MaxCompressChars == 5

\* every summary of at most MaxSummaryLen characters: letters, dots, spaces
CompressSummaries ==
  {Lit(cs) : cs \in UNION {[1..n -> {"a", ".", " "}] : n \in 0..MaxSummaryLen}}

\* ------------------------------------------------------------------------
\* Inputs of callGeminiAPI
\* ------------------------------------------------------------------------

MaxRetries == 3

Delays == {DefaultDelay, 250}

\* messages of errors: with each marker of an overload or a rate limit, and
\* without any (the markers are matched with their case)
ApiErrorMessages ==
  {Lit(<<"5", "0", "3">>),
   Lit(<<"i", "s", " ", "o", "v", "e", "r", "l", "o", "a", "d", "e", "d", ".">>),
   Lit(<<"[", "4", "2", "9", "]">>),
   Lit(<<"r", "a", "t", "e", " ", "l", "i", "m", "i", "t">>),
   Lit(<<"R", "a", "t", "e", " ", "L", "i", "m", "i", "t">>),
   Lit(<<"b", "a", "d">>)}

ApiOutcomes ==
  {[ok |-> TRUE, text |-> t] : t \in {Rep("a", 1), Lit(<<" ", "a", "a", "\n">>)}}
    \cup {[ok |-> FALSE, text |-> m] : m \in ApiErrorMessages}

\* ------------------------------------------------------------------------
\* Inputs of splitTextIntoSections
\* ------------------------------------------------------------------------

Tokenizers == {"heuristic", "characters"}

SectionSizes == {1, 2, 3, 4, 6}

\* ------------------------------------------------------------------------
\* Inputs of the /api/summarize handler
\* ------------------------------------------------------------------------

Requests == {1, 2}

NoFile == [kind |-> "none", text |-> <<>>]

\* req.file: none, text files (empty, blank, of one section, of two sections
\* for the encoder), .pdf files that parse (two sections for the encoder)
\* and that do not, another format
Files ==
  {NoFile,
   [kind |-> "txt", text |-> <<>>],
   [kind |-> "txt", text |-> Lit(<<" ", "\n", "\n", " ">>)],
   [kind |-> "txt", text |-> Lit(<<"a", ".", " ", "b">>)],
   [kind |-> "txt", text |-> join(<<Rep("a", 8000), Rep("b", 8000)>>, BlankLine)],
   [kind |-> "pdf", text |-> join(<<Rep("b", 9000), Rep("a", 7000)>>, BlankLine)],
   [kind |-> "badpdf", text |-> <<>>],
   [kind |-> "other", text |-> <<>>]}

HandlerOutcomes ==
  {[ok |-> TRUE, text |-> Rep("a", 1)],
   [ok |-> TRUE, text |-> Lit(<<" ", "b", "b", "\n">>)],
   [ok |-> FALSE, text |-> Lit(<<"5", "0", "3">>)],
   [ok |-> FALSE, text |-> Lit(<<"b", "a", "d">>)]}

\* ------------------------------------------------------------------------
\* State
\* ------------------------------------------------------------------------

\* splitTextIntoChunks under test: its arguments, its result, and the result
\* of a second call on the chunks joined by blank lines
VARIABLES cText, cMaxChars, cChunks, cRechunks, cPc

\* summarizeText: the document, the position in the code, the chunks, the
\* promises of the summarizeChunk calls and the order in which they settled,
\* the array Promise.all resolved to, finalSummary, the model's record of
\* its invocations, and what the call returned or threw
VARIABLES sText, sPc, sChunks, sTasks, sSettled, sSummaries, sFinal, sLog,
          sResult

\* callGeminiAPI under test: the call
VARIABLES gCall

\* splitTextIntoSections under test: its arguments, the strategy of
\* countTokens, its result
VARIABLES tText, tMaxTokens, tTokenizer, tSections, tPc

\* the budgets of summarizeText under test: the text, the number of chunks,
\* the three budgets in characters
VARIABLES bText, bChunkCount, bTotalTarget, bCeiling, bPerChunk, bPc

\* compressSummary under test: its arguments, how its model invocation
\* settled, what it returned
VARIABLES zSummary, zMaxChars, zOutcome, zResult, zPc

\* the server: whether GEMINI_API_KEY is set, which strategy countTokens
\* uses, and per request of /api/summarize the locals of its handler; the
\* model: per request the chunk of each prompt it was sent and its answer to
\* the last attempt for it; whether a request took a step while another was
\* between its first model invocation and its response
VARIABLES hApiKey, hTokenizer, hReq, hAnswers, hOverlap

\* the React component App: its state file, text, summary, error, stats and
\* isLoading (isProcessing is set together with isLoading); the FileReaders
\* that have not loaded yet; the request of handleSummarize that has not
\* settled yet, with the file its form data holds; the files whose responses
\* the stored summary and stats were taken from
VARIABLES uFile, uText, uSummary, uError, uStats, uIsLoading, uReaders,
          uRequest, uSummaryOf, uStatsOf

uiVars ==
  <<uFile, uText, uSummary, uError, uStats, uIsLoading, uReaders, uRequest,
    uSummaryOf, uStatsOf>>

chunkVars == <<cText, cMaxChars, cChunks, cRechunks, cPc>>

geminiVars == <<gCall>>

apiVars == <<hApiKey, hTokenizer, hReq, hAnswers, hOverlap>>

sectionVars == <<tText, tMaxTokens, tTokenizer, tSections, tPc>>

budgetVars == <<bText, bChunkCount, bTotalTarget, bCeiling, bPerChunk, bPc>>

compressVars == <<zSummary, zMaxChars, zOutcome, zResult, zPc>>

sumVars ==
  <<sText, sPc, sChunks, sTasks, sSettled, sSummaries, sFinal, sLog, sResult>>

vars ==
  <<chunkVars, sumVars, geminiVars, apiVars, sectionVars, budgetVars,
    compressVars, uiVars>>

\* the state an action of one unit leaves alone: that of the other units
notChunk ==
  <<sumVars, geminiVars, apiVars, sectionVars, budgetVars, compressVars,
    uiVars>>

notSum ==
  <<chunkVars, geminiVars, apiVars, sectionVars, budgetVars, compressVars,
    uiVars>>

notGemini ==
  <<chunkVars, sumVars, apiVars, sectionVars, budgetVars, compressVars,
    uiVars>>

notApi ==
  <<chunkVars, sumVars, geminiVars, sectionVars, budgetVars, compressVars,
    uiVars>>

notSection ==
  <<chunkVars, sumVars, geminiVars, apiVars, budgetVars, compressVars,
    uiVars>>

notCompress ==
  <<chunkVars, sumVars, geminiVars, apiVars, sectionVars, budgetVars,
    uiVars>>

notBudget ==
  <<chunkVars, sumVars, geminiVars, apiVars, sectionVars, compressVars,
    uiVars>>

notUi ==
  <<chunkVars, sumVars, geminiVars, apiVars, sectionVars, budgetVars,
    compressVars>>

ChunkIdle ==
  /\ cText = <<>>
  /\ cMaxChars = 1
  /\ cChunks = <<>>
  /\ cRechunks = <<>>
  /\ cPc = "idle"

SumIdle ==
  /\ sText = <<>>
  /\ sPc = "idle"
  /\ sChunks = <<>>
  /\ sTasks = <<>>
  /\ sSettled = <<>>
  /\ sSummaries = <<>>
  /\ sFinal = <<>>
  /\ sLog = <<>>
  /\ sResult = [kind |-> "none", value |-> <<>>]

NotCalled(retries, delay) ==
  [pc |-> "call", attempt |-> 0, retries |-> retries, delay |-> delay,
   invocations |-> 0, outcomes |-> <<>>, waits |-> <<>>, value |-> <<>>]

GeminiIdle == gCall = NotCalled(0, 0)

\* a request the handler has not begun to handle; sent counts the responses
\* written to it
Arrived(file) ==
  [pc |-> "arrived", file |-> file, text |-> <<>>, chunks |-> <<>>, i |-> 0,
   allSummaries |-> <<>>, call |-> NotCalled(0, 0), invocations |-> 0,
   sent |-> 0,
   res |-> [status |-> 0, fields |-> {}, error |-> <<>>, summary |-> <<>>,
            chunks |-> 0]]

ApiIdle ==
  /\ hApiKey = FALSE
  /\ hTokenizer = "heuristic"
  /\ hReq = [r \in Requests |-> Arrived(NoFile)]
  /\ hAnswers = [r \in Requests |-> <<>>]
  /\ hOverlap = FALSE

SectionIdle ==
  /\ tText = <<>>
  /\ tMaxTokens = 1
  /\ tTokenizer = "heuristic"
  /\ tSections = <<>>
  /\ tPc = "idle"

BudgetIdle ==
  /\ bText = <<>>
  /\ bChunkCount = 1
  /\ bTotalTarget = 0
  /\ bCeiling = 0
  /\ bPerChunk = 0
  /\ bPc = "idle"

NoOutcome == [ok |-> FALSE, text |-> <<>>]

CompressIdle ==
  /\ zSummary = <<>>
  /\ zMaxChars = 0
  /\ zOutcome = NoOutcome
  /\ zResult = [kind |-> "none", value |-> <<>>]
  /\ zPc = "idle"

\* no request of handleSummarize is waiting for its response
NoRequest == [pending |-> FALSE, file |-> NoFile]

\* part_001 lines 8-16, the initial state of the component: no file (null),
\* empty text, summary and error, no stats (null), not loading
UiIdle ==
  /\ uFile = NoFile
  /\ uText = <<>>
  /\ uSummary = <<>>
  /\ uError = <<>>
  /\ uStats = <<>>
  /\ uIsLoading = FALSE
  /\ uReaders = {}
  /\ uRequest = NoRequest
  /\ uSummaryOf = NoFile
  /\ uStatsOf = NoFile

\* ------------------------------------------------------------------------
\* splitTextIntoChunks under test
\* ------------------------------------------------------------------------

ChunkInit ==
  /\ cText \in ShortTexts \cup LongTexts
  /\ cMaxChars \in ChunkSizes
  /\ cChunks = <<>>
  /\ cRechunks = <<>>
  /\ cPc = "input"

CallSplitTextIntoChunks ==
  /\ cPc = "input"
  /\ cChunks' = splitTextIntoChunks(cText, cMaxChars)
  /\ cPc' = "chunked"
  /\ UNCHANGED <<notChunk, cText, cMaxChars, cRechunks>>

\* splitTextIntoChunks(chunks.join('\n\n'), maxChars): the chunks, joined by
\* the paragraph separator, chunked again with the same threshold
RechunkJoined ==
  /\ cPc = "chunked"
  /\ cRechunks' = splitTextIntoChunks(join(cChunks, BlankLine), cMaxChars)
  /\ cPc' = "rechunked"
  /\ UNCHANGED <<notChunk, cText, cMaxChars, cChunks>>

ChunkNext ==
  \/ CallSplitTextIntoChunks
  \/ RechunkJoined

InitChunk ==
  /\ ChunkInit /\ SumIdle /\ GeminiIdle /\ ApiIdle /\ SectionIdle /\ BudgetIdle
  /\ CompressIdle /\ UiIdle

SpecChunk == InitChunk /\ [][ChunkNext]_vars

\* ------------------------------------------------------------------------
\* fileProcessor.js: summarizeText as a state machine, one action per stretch
\* of code between two suspension points
\* ------------------------------------------------------------------------

\* one invocation of the model, as the model sees it: the function that
\* made it, the chunk it is for (0: none), the word target of its prompt,
\* and how it settled (text: the text returned or the error's message)
ModelCall(fn, chunk, targetWords) ==
  [fn |-> fn, chunk |-> chunk, targetWords |-> targetWords,
   status |-> "pending", text |-> <<>>]

\* the pending invocation of fn (for chunk) settled with outcome
Settled(log, fn, chunk, outcome) ==
  LET k == CHOOSE k \in 1..Len(log) :
             /\ log[k].fn = fn /\ log[k].chunk = chunk
             /\ log[k].status = "pending"
  IN [log EXCEPT ![k].status = IF outcome.ok THEN "ok" ELSE "error",
                 ![k].text = outcome.text]

NoResult == [kind |-> "none", value |-> <<>>]

SumInit ==
  /\ sText \in Documents
  /\ sPc = "start"
  /\ sChunks = <<>>
  /\ sTasks = <<>>
  /\ sSettled = <<>>
  /\ sSummaries = <<>>
  /\ sFinal = <<>>
  /\ sLog = <<>>
  /\ sResult = NoResult

\* catch (error) { throw new Error(`Summarization failed: ${error.message}`) }
Rethrow(message) ==
  [kind |-> "throw", value |-> Cat(SummarizationFailedPrefix, message)]

\* lines 228-237: a text shorter than 30,000 characters goes to the model whole
StartSingleCall ==
  /\ sPc = "start"
  /\ StrLen(sText) < SingleCallLimit
  /\ sLog' = Append(sLog, ModelCall("summarizeChunk", 0, totalTargetWords(sText)))
  /\ sPc' = "single"
  /\ UNCHANGED <<notSum, sText, sChunks, sTasks, sSettled, sSummaries, sFinal, sResult>>

\* line 237: return await summarizeChunk(text, targetWords)
SingleCallSettle ==
  /\ sPc = "single"
  /\ \E outcome \in ModelOutcomes :
       LET r == summarizeChunk(sText, totalTargetWords(sText), outcome)
       IN /\ sLog' = Settled(sLog, "summarizeChunk", 0, outcome)
          /\ sResult' = IF r.thrown THEN Rethrow(r.value)
                        ELSE [kind |-> "return", value |-> r.value]
          /\ sPc' = IF r.thrown THEN "thrown" ELSE "returned"
  /\ UNCHANGED <<notSum, sText, sChunks, sTasks, sSettled, sSummaries, sFinal>>

\* lines 240-245: no chunk, no summary
StartNoContent ==
  /\ sPc = "start"
  /\ StrLen(sText) >= SingleCallLimit
  /\ Len(splitTextIntoChunks(sText, ChunkChars)) = 0
  /\ sResult' = Rethrow(NoTextContentMessage)
  /\ sPc' = "thrown"
  /\ UNCHANGED <<notSum, sText, sChunks, sTasks, sSettled, sSummaries, sFinal, sLog>>

\* lines 240-258: chunks.map starts one summarizeChunk per chunk, each of
\* which invokes the model before it first suspends
StartFanOut ==
  /\ sPc = "start"
  /\ StrLen(sText) >= SingleCallLimit
  /\ LET chunks == splitTextIntoChunks(sText, ChunkChars)
         n == Len(chunks)
     IN /\ n > 0
        /\ sChunks' = chunks
        /\ sTasks' = [i \in 1..n |-> [done |-> FALSE, thrown |-> FALSE, value |-> <<>>]]
        /\ sLog' = sLog \o [i \in 1..n |->
                     ModelCall("summarizeChunk", i, targetWordsPerChunk(sText, n))]
  /\ sPc' = "fanout"
  /\ UNCHANGED <<notSum, sText, sSettled, sSummaries, sFinal, sResult>>

\* lines 254-257: the summarizeChunk of chunk i settles, in any order
ChunkSettle ==
  /\ sPc = "fanout"
  /\ \E i \in 1..Len(sTasks), outcome \in ModelOutcomes :
       LET r == summarizeChunk(sChunks[i],
                               targetWordsPerChunk(sText, Len(sChunks)), outcome)
       IN /\ ~sTasks[i].done
          /\ sTasks' = [sTasks EXCEPT ![i] =
                          [done |-> TRUE, thrown |-> r.thrown, value |-> r.value]]
          /\ sSettled' = Append(sSettled, i)
          /\ sLog' = Settled(sLog, "summarizeChunk", i, outcome)
  /\ UNCHANGED <<notSum, sText, sPc, sChunks, sSummaries, sFinal, sResult>>

\* the promise whose rejection Promise.all reports: the first that rejected
FirstRejected(tasks, settled) ==
  LET k == CHOOSE k \in 1..Len(settled) :
             /\ tasks[settled[k]].thrown
             /\ \A m \in 1..(k - 1) : ~tasks[settled[m]].thrown
  IN settled[k]

\* line 253: Promise.all resolves once every promise has, with the values in
\* the order of the chunks, and rejects as soon as one promise rejects
PromiseAllSettle ==
  /\ sPc = "fanout"
  /\ \/ \A i \in 1..Len(sTasks) : sTasks[i].done
     \/ \E i \in 1..Len(sTasks) : sTasks[i].done /\ sTasks[i].thrown
  /\ IF \E i \in 1..Len(sTasks) : sTasks[i].done /\ sTasks[i].thrown
     THEN /\ sResult' = Rethrow(sTasks[FirstRejected(sTasks, sSettled)].value)
          /\ sPc' = "thrown"
          /\ UNCHANGED sSummaries
     ELSE /\ sSummaries' = PromiseAll(sTasks, sSettled)
          /\ sPc' = "joined"
          /\ UNCHANGED sResult
  /\ UNCHANGED <<notSum, sText, sChunks, sTasks, sSettled, sFinal, sLog>>

\* lines 160-163 (from line 264): a single summary is returned as it is
CombineSingle ==
  /\ sPc = "joined"
  /\ ~combineNeedsModel(sSummaries)
  /\ sFinal' = combineSummaries(sSummaries, totalTargetWords(sText),
                                [ok |-> TRUE, text |-> <<>>])
  /\ sPc' = "combined"
  /\ UNCHANGED <<notSum, sText, sChunks, sTasks, sSettled, sSummaries, sLog, sResult>>

\* lines 165-178 (from line 264): several summaries go to the model
CombineCall ==
  /\ sPc = "joined"
  /\ combineNeedsModel(sSummaries)
  /\ sLog' = Append(sLog, ModelCall("combineSummaries", 0, totalTargetWords(sText)))
  /\ sPc' = "combining"
  /\ UNCHANGED <<notSum, sText, sChunks, sTasks, sSettled, sSummaries, sFinal, sResult>>

\* lines 178-184
CombineSettle ==
  /\ sPc = "combining"
  /\ \E outcome \in ModelOutcomes :
       /\ sFinal' = combineSummaries(sSummaries, totalTargetWords(sText), outcome)
       /\ sLog' = Settled(sLog, "combineSummaries", 0, outcome)
  /\ sPc' = "combined"
  /\ UNCHANGED <<notSum, sText, sChunks, sTasks, sSettled, sSummaries, sResult>>

\* lines 267-270: a summary over the ceiling goes to compressSummary
CeilingCompress ==
  /\ sPc = "combined"
  /\ StrLen(sFinal) > maxFinalCharLength(sText)
  /\ sLog' = Append(sLog, ModelCall("compressSummary", 0,
                                    maxFinalCharLength(sText) \div CHARS_PER_WORD))
  /\ sPc' = "compressing"
  /\ UNCHANGED <<notSum, sText, sChunks, sTasks, sSettled, sSummaries, sFinal, sResult>>

\* line 267, condition false
CeilingSkip ==
  /\ sPc = "combined"
  /\ ~(StrLen(sFinal) > maxFinalCharLength(sText))
  /\ sPc' = "ceiled"
  /\ UNCHANGED <<notSum, sText, sChunks, sTasks, sSettled, sSummaries, sFinal, sLog, sResult>>

\* line 269: finalSummary = await compressSummary(finalSummary, maxFinalCharLength)
CompressSettle ==
  /\ sPc = "compressing"
  /\ \E outcome \in ModelOutcomes :
       /\ sFinal' = compressSummary(sFinal, maxFinalCharLength(sText), outcome)
       /\ sLog' = Settled(sLog, "compressSummary", 0, outcome)
  /\ sPc' = "ceiled"
  /\ UNCHANGED <<notSum, sText, sChunks, sTasks, sSettled, sSummaries, sResult>>

\* lines 273-277: a summary longer than the text goes to compressSummary again
SafetyCompress ==
  /\ sPc = "ceiled"
  /\ StrLen(sFinal) > StrLen(sText)
  /\ sLog' = Append(sLog, ModelCall("emergencyCompress", 0,
                                    emergencyTargetChars(sText) \div CHARS_PER_WORD))
  /\ sPc' = "emergency"
  /\ UNCHANGED <<notSum, sText, sChunks, sTasks, sSettled, sSummaries, sFinal, sResult>>

\* line 276 and line 280
SafetySettle ==
  /\ sPc = "emergency"
  /\ \E outcome \in ModelOutcomes :
       /\ sFinal' = compressSummary(sFinal, emergencyTargetChars(sText), outcome)
       /\ sResult' = [kind |-> "return",
                      value |-> compressSummary(sFinal, emergencyTargetChars(sText), outcome)]
       /\ sLog' = Settled(sLog, "emergencyCompress", 0, outcome)
  /\ sPc' = "returned"
  /\ UNCHANGED <<notSum, sText, sChunks, sTasks, sSettled, sSummaries>>

\* line 273, condition false, and line 280
ReturnFinal ==
  /\ sPc = "ceiled"
  /\ ~(StrLen(sFinal) > StrLen(sText))
  /\ sResult' = [kind |-> "return", value |-> sFinal]
  /\ sPc' = "returned"
  /\ UNCHANGED <<notSum, sText, sChunks, sTasks, sSettled, sSummaries, sFinal, sLog>>

SumNext ==
  \/ StartSingleCall
  \/ SingleCallSettle
  \/ StartNoContent
  \/ StartFanOut
  \/ ChunkSettle
  \/ PromiseAllSettle
  \/ CombineSingle
  \/ CombineCall
  \/ CombineSettle
  \/ CeilingCompress
  \/ CeilingSkip
  \/ CompressSettle
  \/ SafetyCompress
  \/ SafetySettle
  \/ ReturnFinal

InitSum ==
  /\ SumInit /\ ChunkIdle /\ GeminiIdle /\ ApiIdle /\ SectionIdle /\ BudgetIdle
  /\ CompressIdle /\ UiIdle

SpecSum == InitSum /\ [][SumNext]_vars

\* ------------------------------------------------------------------------
\* server.js: callGeminiAPI under test
\* ------------------------------------------------------------------------

GeminiInit ==
  \E retries \in 0..MaxRetries, delay \in Delays : gCall = NotCalled(retries, delay)

\* line 119: the call
GeminiCall ==
  /\ gCall.pc = "call"
  /\ gCall' = callGeminiAPI(gCall.retries, gCall.delay)
  /\ UNCHANGED notGemini

\* lines 122-146
GeminiSettle ==
  /\ gCall.pc = "invoking"
  /\ \E outcome \in ApiOutcomes : gCall' = AttemptSettled(gCall, outcome)
  /\ UNCHANGED notGemini

\* line 142
GeminiBackoffElapsed ==
  /\ gCall.pc = "waiting"
  /\ gCall' = BackoffElapsed(gCall)
  /\ UNCHANGED notGemini

GeminiNext ==
  \/ GeminiCall
  \/ GeminiSettle
  \/ GeminiBackoffElapsed

InitGemini ==
  /\ GeminiInit /\ ChunkIdle /\ SumIdle /\ ApiIdle /\ SectionIdle /\ BudgetIdle
  /\ CompressIdle /\ UiIdle

SpecGemini == InitGemini /\ [][GeminiNext]_vars

\* ------------------------------------------------------------------------
\* server.js: the handler of POST /api/summarize, per request
\* ------------------------------------------------------------------------

ApiInit ==
  /\ hApiKey \in BOOLEAN
  /\ hTokenizer \in Tokenizers
  /\ hReq \in [Requests -> {Arrived(f) : f \in Files}]
  /\ hAnswers = [r \in Requests |-> <<>>]
  /\ hOverlap = FALSE

\* res.json(...), res.status(...).json(...): a response is written
Respond(req, res) ==
  [req EXCEPT !.pc = "responded", !.res = res, !.sent = @ + 1]

\* lines 221-234 once the summaries of the first i - 1 chunks are pushed:
\* the next callGeminiAPI, or the response
Continue(req, i, allSummaries) ==
  IF i <= Len(req.chunks)
  THEN [req EXCEPT !.pc = "calling", !.i = i, !.allSummaries = allSummaries,
                   !.call = callGeminiAPI(DefaultRetries, DefaultDelay),
                   !.invocations = @ + 1]
  ELSE Respond([req EXCEPT !.i = i, !.allSummaries = allSummaries],
               SummaryResponse(allSummaries, Len(req.chunks)))

\* Handle without the return of line 201: after the 400 response the handler
\* goes on and answers again
HandleFallThrough(req, apiKey, tokenizer) ==
  LET extracted == extractTextFromFile(req.file)
      text == extracted.value
      chunks == splitTextIntoSections(
                  text, summaryInputSize(targetSummaryWords(text)), tokenizer)
  IN IF req.file.kind = "none"
     THEN Respond(Respond(req, ErrorResponse(400, NoFileUploaded)),
                  ErrorResponse(500, KeyNotConfigured))
     ELSE IF ~apiKey
     THEN Respond(req, ErrorResponse(500, KeyNotConfigured))
     ELSE IF extracted.thrown
     THEN Respond(req, ErrorResponse(500, extracted.value))
     ELSE Continue([req EXCEPT !.text = text, !.chunks = chunks], 1, <<>>)

\* lines 199-227: from the request to the first model invocation, or to the
\* response when there is none
Handle(req, apiKey, tokenizer) ==
  LET extracted == extractTextFromFile(req.file)
      text == extracted.value
      chunks == splitTextIntoSections(
                  text, summaryInputSize(targetSummaryWords(text)), tokenizer)
  IN IF req.file.kind = "none"
     THEN Respond(req, ErrorResponse(400, NoFileUploaded))
     ELSE IF ~apiKey
     THEN Respond(req, ErrorResponse(500, KeyNotConfigured))
     ELSE IF extracted.thrown
     THEN Respond(req, ErrorResponse(500, extracted.value))
     ELSE Continue([req EXCEPT !.text = text, !.chunks = chunks], 1, <<>>)

\* another request is between its first model invocation and its response
Overlaps(r) == \E q \in Requests \ {r} : hReq[q].pc = "calling"

HandleRequest(r) ==
  /\ hReq[r].pc = "arrived"
  /\ hReq' = [hReq EXCEPT ![r] = Handle(hReq[r], hApiKey, hTokenizer)]
  /\ hOverlap' = (hOverlap \/ Overlaps(r))
  /\ UNCHANGED <<notApi, hApiKey, hTokenizer, hAnswers>>

\* Settle with allSummaries an array of the module, which the handlers of
\* all requests push to
SettleSharedArray(req, outcome) ==
  LET call == AttemptSettled(req.call, outcome)
      others == {q \in Requests : hReq[q] # req}
      shared == IF others = {} THEN req.allSummaries
                ELSE hReq[CHOOSE q \in others : TRUE].allSummaries
                       \o req.allSummaries
  IN IF call.pc = "returned"
     THEN Continue([req EXCEPT !.call = call], req.i + 1,
                   Append(shared, call.value))
     ELSE [req EXCEPT !.call = call]

\* lines 122-146 and 227-234: an attempt of the request's callGeminiAPI
\* settles; when the call returns, its summary is pushed and the loop goes on
Settle(req, outcome) ==
  LET call == AttemptSettled(req.call, outcome)
  IN IF call.pc = "returned"
     THEN Continue([req EXCEPT !.call = call], req.i + 1,
                   Append(req.allSummaries, call.value))
     ELSE [req EXCEPT !.call = call]

\* the model's record for a request once the attempt of the current chunk
\* settled with outcome: kept when the call goes on to another attempt
Answered(answers, req, outcome) ==
  IF AttemptSettled(req.call, outcome).pc = "returned"
  THEN Append(answers, [chunk |-> req.chunks[req.i], ok |-> outcome.ok,
                        text |-> outcome.text])
  ELSE answers

HandlerAttemptSettle(r) ==
  /\ hReq[r].pc = "calling"
  /\ hReq[r].call.pc = "invoking"
  /\ \E outcome \in HandlerOutcomes :
       /\ hReq' = [hReq EXCEPT ![r] = Settle(hReq[r], outcome)]
       /\ hAnswers' = [hAnswers EXCEPT ![r] = Answered(@, hReq[r], outcome)]
  /\ hOverlap' = (hOverlap \/ Overlaps(r))
  /\ UNCHANGED <<notApi, hApiKey, hTokenizer>>

\* line 142: the backoff of the request's callGeminiAPI is over
HandlerBackoffElapsed(r) ==
  /\ hReq[r].pc = "calling"
  /\ hReq[r].call.pc = "waiting"
  /\ hReq' = [hReq EXCEPT ![r].call = BackoffElapsed(hReq[r].call),
                          ![r].invocations = @ + 1]
  /\ hOverlap' = (hOverlap \/ Overlaps(r))
  /\ UNCHANGED <<notApi, hApiKey, hTokenizer, hAnswers>>

ApiNext ==
  \/ \E r \in Requests : HandleRequest(r)
  \/ \E r \in Requests : HandlerAttemptSettle(r)
  \/ \E r \in Requests : HandlerBackoffElapsed(r)

InitApi ==
  /\ ApiInit /\ ChunkIdle /\ SumIdle /\ GeminiIdle /\ SectionIdle /\ BudgetIdle
  /\ CompressIdle /\ UiIdle

SpecApi == InitApi /\ [][ApiNext]_vars

\* lines 199-227 for every file, key configuration and tokenizer: what the
\* handler makes of a request that has just arrived
Handled ==
  [f \in Files, k \in BOOLEAN, t \in Tokenizers |-> Handle(Arrived(f), k, t)]

\* HandleRequest(r) with the handler's step read from Handled; a request not
\* yet handled is Arrived(file) for a file of Files, so this is the same action
HandleArrived(r) ==
  /\ hReq[r].pc = "arrived"
  /\ hReq' = [hReq EXCEPT ![r] = Handled[hReq[r].file, hApiKey, hTokenizer]]
  /\ hOverlap' = (hOverlap \/ Overlaps(r))
  /\ UNCHANGED <<notApi, hApiKey, hTokenizer, hAnswers>>

\* every step of SpecApi is a HandleRequest(r) step exactly when it is a
\* HandleArrived(r) step
HandleArrivedIsHandleRequest ==
  [][\A r \in Requests : HandleRequest(r) <=> HandleArrived(r)]_vars

\* the event loop runs the handler of every request received; every model
\* invocation settles and every backoff timer fires
ApiFairness ==
  \A r \in Requests :
    /\ WF_vars(HandleArrived(r))
    /\ WF_vars(HandlerAttemptSettle(r))
    /\ WF_vars(HandlerBackoffElapsed(r))

\* the files of at most one section
ShortFiles == {f \in Files : StrLen(f.text) < 100}

\* a request with any file next to requests with files of at most one section
InitApiFair ==
  /\ InitApi
  /\ \A r \in Requests \ {1} : hReq[r].file \in ShortFiles

SpecApiFair == InitApiFair /\ [][ApiNext]_vars /\ ApiFairness

\* ------------------------------------------------------------------------
\* server.js: splitTextIntoSections under test
\* ------------------------------------------------------------------------

SectionInit ==
  /\ tText \in LongTexts
  /\ tMaxTokens \in SectionSizes
  /\ tTokenizer \in Tokenizers
  /\ tSections = <<>>
  /\ tPc = "input"

CallSplitTextIntoSections ==
  /\ tPc = "input"
  /\ tSections' = splitTextIntoSections(tText, tMaxTokens, tTokenizer)
  /\ tPc' = "split"
  /\ UNCHANGED <<notSection, tText, tMaxTokens, tTokenizer>>

SectionNext == CallSplitTextIntoSections

InitSection ==
  /\ SectionInit /\ ChunkIdle /\ SumIdle /\ GeminiIdle /\ ApiIdle /\ BudgetIdle
  /\ CompressIdle /\ UiIdle

SpecSection == InitSection /\ [][SectionNext]_vars

\* ------------------------------------------------------------------------
\* fileProcessor.js: the budgets of summarizeText under test
\* ------------------------------------------------------------------------

BudgetInit ==
  /\ bText \in BudgetTexts
  /\ bChunkCount \in 1..MaxChunks
  /\ bTotalTarget = 0
  /\ bCeiling = 0
  /\ bPerChunk = 0
  /\ bPc = "input"

\* lines 228, 230 and 248
ComputeBudgets ==
  /\ bPc = "input"
  /\ bTotalTarget' = totalTargetCharLength(bText)
  /\ bCeiling' = maxFinalCharLength(bText)
  /\ bPerChunk' = targetCharLengthPerChunk(bText, bChunkCount)
  /\ bPc' = "computed"
  /\ UNCHANGED <<notBudget, bText, bChunkCount>>

BudgetNext == ComputeBudgets

InitBudget ==
  /\ BudgetInit /\ ChunkIdle /\ SumIdle /\ GeminiIdle /\ ApiIdle /\ SectionIdle
  /\ CompressIdle /\ UiIdle

SpecBudget == InitBudget /\ [][BudgetNext]_vars

\* ------------------------------------------------------------------------
\* fileProcessor.js: compressSummary under test
\* ------------------------------------------------------------------------

CompressInit ==
  /\ zSummary \in CompressSummaries
  /\ zMaxChars \in 0..MaxCompressChars
  /\ zOutcome = NoOutcome
  /\ zResult = [kind |-> "none", value |-> <<>>]
  /\ zPc = "input"

\* lines 193-212: the call, up to the model invocation
CompressCall ==
  /\ zPc = "input"
  /\ zPc' = "invoking"
  /\ UNCHANGED <<notCompress, zSummary, zMaxChars, zOutcome, zResult>>

\* lines 210-215: the invocation settles and compressSummary returns
CompressReturn ==
  /\ zPc = "invoking"
  /\ \E outcome \in ModelOutcomes :
       /\ zOutcome' = outcome
       /\ zResult' = [kind |-> "return",
                      value |-> compressSummary(zSummary, zMaxChars, outcome)]
  /\ zPc' = "returned"
  /\ UNCHANGED <<notCompress, zSummary, zMaxChars>>

CompressNext ==
  \/ CompressCall
  \/ CompressReturn

InitCompress ==
  /\ CompressInit /\ ChunkIdle /\ SumIdle /\ GeminiIdle /\ ApiIdle
  /\ SectionIdle /\ BudgetIdle /\ UiIdle

SpecCompress == InitCompress /\ [][CompressNext]_vars

\* ------------------------------------------------------------------------
\* part_001: the React component App, file drops and handleSummarize
\* ------------------------------------------------------------------------

\* lines 45-51: the dropzone accepts files named .txt and .pdf, one at a time
AcceptedFiles == {f \in Files : f.kind \in {"txt", "pdf", "badpdf"}}

\* summaries callGeminiAPI returns for a section
UiSummaries == {Rep("a", 1), Lit(<<"b", "b">>)}

\* axios.post fails without a response from the server
NoResponse ==
  [status |-> 0, fields |-> {}, error |-> <<>>, summary |-> <<>>, chunks |-> 0]

\* the responses of the handler of server.js (lines 198-240) to a request
\* with the file when the key is set: the one it sends before any model
\* invocation, or the join of one summary for each section of the file
Answers(file, tokenizer) ==
  LET req == Handled[file, TRUE, tokenizer]
  IN IF req.pc = "responded" THEN {req.res}
     ELSE {SummaryResponse(allSummaries, Len(req.chunks)) :
             allSummaries \in [1..Len(req.chunks) -> UiSummaries]}

\* what axios.post('/api/summarize') can settle with for a file: no
\* response, or a response of the server without or with the key
Responses(file) ==
  {NoResponse}
    \cup {Handled[file, FALSE, t].res : t \in Tokenizers}
    \cup UNION {Answers(file, t) : t \in Tokenizers}

DefaultError ==
  Lit(<<"A", "n", " ", "e", "r", "r", "o", "r", " ", "o", "c", "c", "u",
        "r", "r", "e", "d", " ", "w", "h", "i", "l", "e", " ", "s", "u",
        "m", "m", "a", "r", "i", "z", "i", "n", "g", " ", "t", "h", "e",
        " ", "f", "i", "l", "e">>)

\* line 100: err.response?.data?.error || 'An error occurred ...'
ErrorShown(res) ==
  IF "error" \in res.fields /\ res.error # <<>> THEN res.error
  ELSE DefaultError

\* response.data[field]: undefined when the response has no such field
ResponseData(res, field) ==
  IF field \in res.fields THEN res[field] ELSE "undefined"

\* Math.round(100 - (summaryLength / originalLength) * 100) of two numbers
CompressionRatio(originalLength, summaryLength) ==
  IF originalLength = 0
  THEN IF summaryLength = 0 THEN "NaN" ELSE "-Infinity"
  ELSE (200 * originalLength - 200 * summaryLength + originalLength)
         \div (2 * originalLength)

\* lines 91-97: the object handleSummarize stores in stats; the ratio is NaN
\* when a length is undefined
StatsOf(res) ==
  LET originalLength == ResponseData(res, "originalLength")
      summaryLength == ResponseData(res, "summaryLength")
  IN [originalLength |-> originalLength,
      summaryLength |-> summaryLength,
      compressionRatio |->
        IF {"originalLength", "summaryLength"} \subseteq res.fields
        THEN CompressionRatio(originalLength, summaryLength)
        ELSE "NaN"]

\* reader.readAsText(selectedFile): the bytes of the file decoded as text,
\* for a .pdf file its signature and what follows, not the text pdf-parse
\* extracts
ReadAsText(file) ==
  IF file.kind = "txt" THEN file.text
  ELSE Cat(Lit(<<"%", "P", "D", "F">>), file.text)

\* lines 27-43: a drop on the dropzone; acceptedFiles[0] is undefined when
\* the dropzone rejected the file
UiOnDrop ==
  \E selectedFile \in AcceptedFiles \cup {NoFile} :
    IF selectedFile = NoFile
    THEN UNCHANGED vars
    ELSE /\ uFile' = selectedFile
         /\ uText' = <<>>
         /\ uSummary' = <<>>
         /\ uError' = <<>>
         /\ uStats' = <<>>
         /\ uReaders' = uReaders \cup {selectedFile}
         /\ uSummaryOf' = NoFile
         /\ uStatsOf' = NoFile
         /\ UNCHANGED <<notUi, uIsLoading, uRequest>>

\* lines 38-40: reader.onload
UiReaderLoad ==
  \E f \in uReaders :
    /\ uText' = ReadAsText(f)
    /\ uReaders' = uReaders \ {f}
    /\ UNCHANGED <<notUi, uFile, uSummary, uError, uStats, uIsLoading,
                   uRequest, uSummaryOf, uStatsOf>>

\* lines 54-80: a click on the button, which is rendered when there is a file
\* (line 244) and disabled while isLoading (line 248), up to the await of
\* axios.post
UiHandleSummarize ==
  /\ uFile # NoFile
  /\ ~uIsLoading
  /\ uIsLoading' = TRUE
  /\ uError' = <<>>
  /\ uRequest' = [pending |-> TRUE, file |-> uFile]
  /\ UNCHANGED <<notUi, uFile, uText, uSummary, uStats, uReaders, uSummaryOf,
                 uStatsOf>>

\* lines 80-108: axios.post settles; the response is stored, or the error
UiRequestSettles ==
  /\ uRequest.pending
  /\ \E res \in Responses(uRequest.file) :
       IF res.status = 200
       THEN /\ uSummary' = ResponseData(res, "summary")
            /\ uStats' = <<StatsOf(res)>>
            /\ uSummaryOf' = uRequest.file
            /\ uStatsOf' = uRequest.file
            /\ UNCHANGED uError
       ELSE /\ uError' = ErrorShown(res)
            /\ UNCHANGED <<uSummary, uStats, uSummaryOf, uStatsOf>>
  /\ uIsLoading' = FALSE
  /\ uRequest' = NoRequest
  /\ UNCHANGED <<notUi, uFile, uText, uReaders>>

UiNext ==
  \/ UiOnDrop
  \/ UiReaderLoad
  \/ UiHandleSummarize
  \/ UiRequestSettles

InitUi ==
  /\ UiIdle /\ ChunkIdle /\ SumIdle /\ GeminiIdle /\ ApiIdle /\ SectionIdle
  /\ BudgetIdle /\ CompressIdle

SpecUi == InitUi /\ [][UiNext]_vars

\* ------------------------------------------------------------------------
\* Claims about the chunker
\* ------------------------------------------------------------------------

RECURSIVE NonSpace(_)
\* the characters of s that are not white space, in order
NonSpace(s) ==
  IF s = <<>> THEN <<>>
  ELSE IF IsSpace(s[1].c) THEN NonSpace(Tail(s))
  ELSE Cat(<<s[1]>>, NonSpace(Tail(s)))

\* the trimmed paragraphs of the text
TrimmedParagraphs(text) ==
  LET ps == SplitBlankLine(text, <<>>) IN {trim(ps[i]) : i \in 1..Len(ps)}

\* C2: every chunk splitTextIntoChunks returns is at most maxChars long
C2_ChunkWithinMax ==
  cPc = "chunked" => \A i \in 1..Len(cChunks) : StrLen(cChunks[i]) <= cMaxChars

\* a paragraph was too long, was split by sentences, and its last sentence
\* group was carried over and merged with the paragraph that follows
C2_Witness ==
  /\ cPc = "chunked"
  /\ \E p \in TrimmedParagraphs(cText), i \in 1..Len(cChunks) :
       LET ss == SplitSentences(p, <<>>)
           ps == SplitBlankLine(cChunks[i], <<>>)
       IN /\ StrLen(p) > cMaxChars
          /\ Len(ss) >= 2
          /\ Len(ps) >= 2
          /\ ps[1] = ss[Len(ss)]
  /\ \A i \in 1..Len(cChunks) : StrLen(cChunks[i]) <= cMaxChars

\* C3: no chunk splitTextIntoChunks returns is empty or white space only
C3_NoEmptyChunk ==
  cPc = "chunked" => \A i \in 1..Len(cChunks) : trim(cChunks[i]) # <<>>

\* C4: the chunks, concatenated in order, hold exactly the characters of the
\* text that are not white space, in the order of the text
C4_ContentPreserved ==
  cPc = "chunked" => NonSpace(join(cChunks, <<>>)) = NonSpace(cText)

\* a text whose paragraphs went through the paragraph, the sentence and the
\* hard-split branch, chunked into several chunks without loss
C4_Witness ==
  /\ cPc = "chunked"
  /\ Len(cChunks) >= 3
  /\ \E p \in TrimmedParagraphs(cText) :
       /\ StrLen(p) > cMaxChars
       /\ \E k \in 1..Len(SplitSentences(p, <<>>)) :
            StrLen(SplitSentences(p, <<>>)[k]) > cMaxChars
       /\ Len(SplitSentences(p, <<>>)) >= 2
  /\ \E p \in TrimmedParagraphs(cText) : p # <<>> /\ StrLen(p) <= cMaxChars
  /\ NonSpace(join(cChunks, <<>>)) = NonSpace(cText)

\* C13: chunking is idempotent: the chunks joined by blank lines and chunked
\* again with the same maxChars are the same sequence of chunks
C13_ChunkingIdempotent ==
  cPc = "rechunked" => cRechunks = cChunks

\* C14: every section splitTextIntoSections returns counts at most maxTokens
\* tokens
C14_SectionWithinMax ==
  tPc = "split" =>
    \A i \in 1..Len(tSections) :
      countTokens(tSections[i], tTokenizer) <= tMaxTokens

\* ------------------------------------------------------------------------
\* Claims about summarizeText
\* ------------------------------------------------------------------------

\* the invocations of the model made by fn
CallsOf(fn) == {k \in 1..Len(sLog) : sLog[k].fn = fn}

\* the positions from which summarizeText has the array of partial summaries
AfterJoin ==
  sPc \in {"joined", "combining", "combined", "compressing", "ceiled",
           "emergency", "returned"}

\* C1: whatever summarizeText returns is at most as long as the document
C1_SummaryNotLonger ==
  sResult.kind = "return" => StrLen(sResult.value) <= StrLen(sText)

\* C5: the array handed to combineSummaries has one summary per chunk, the
\* i-th being the one summarizeChunk produced for chunk i, whatever the order
\* in which the calls completed
C5_OrderPreservingJoin ==
  sPc = "joined" =>
    /\ Len(sSummaries) = Len(sChunks)
    /\ \A i \in 1..Len(sChunks) : sSummaries[i] = sTasks[i].value

\* three chunks whose calls completed in another order than the chunks',
\* with different summaries
C5_Witness ==
  /\ sPc = "joined"
  /\ Len(sChunks) = 3
  /\ sSettled = <<3, 1, 2>>
  /\ sTasks[1].value # sTasks[2].value
  /\ sTasks[2].value # sTasks[3].value
  /\ sTasks[1].value # sTasks[3].value
  /\ sSummaries = <<sTasks[1].value, sTasks[2].value, sTasks[3].value>>

\* C7: on the chunked path failed chunk calls never make summarizeText throw;
\* a failed chunk contributes the tagged placeholder, another chunk the
\* trimmed text of the model, and there is one partial summary per chunk
C7_ChunkFailuresRecovered ==
  /\ sChunks # <<>> => sPc # "thrown" /\ sResult.kind # "throw"
  /\ AfterJoin =>
       /\ Len(sSummaries) = Len(sChunks)
       /\ \A i \in 1..Len(sChunks) :
            /\ sLog[i].fn = "summarizeChunk" /\ sLog[i].chunk = i
            /\ sLog[i].status = "error" =>
                 sSummaries[i] =
                   Cat(Cat(ErrSectionPrefix, sLog[i].text), Lit(<<"]">>))
            /\ sLog[i].status = "ok" => sSummaries[i] = trim(sLog[i].text)

\* summarizeText returned although the calls of chunks 1 and 3 failed
C7_Witness ==
  /\ sPc = "returned"
  /\ sResult.kind = "return"
  /\ Len(sChunks) = 3
  /\ sLog[1].status = "error"
  /\ sLog[2].status = "ok"
  /\ sLog[3].status = "error"
  /\ sSummaries[2] = trim(sLog[2].text)
  /\ sSummaries[1] = Cat(Cat(ErrSectionPrefix, sLog[1].text), Lit(<<"]">>))

\* C8: combineSummaries with one partial summary returns it unchanged and
\* does not invoke the model
C8_SinglePassThrough ==
  (AfterJoin /\ Len(sSummaries) = 1) =>
    /\ CallsOf("combineSummaries") = {}
    /\ sPc # "combining"
    /\ sPc = "combined" => sFinal = sSummaries[1]

\* combineSummaries has returned the one summary, which is not empty
C8_Witness ==
  /\ sPc = "combined"
  /\ Len(sSummaries) = 1
  /\ sSummaries[1] # <<>>
  /\ sFinal = sSummaries[1]
  /\ CallsOf("combineSummaries") = {}

\* C9: combineSummaries with two or more partial summaries invokes the model
\* exactly once; when that invocation fails it returns the summaries joined
\* by a blank line, in order, which is not empty; it never throws
C9_CombineFallback ==
  (Len(sSummaries) >= 2 /\ sPc \in {"combining", "combined"}) =>
    /\ Cardinality(CallsOf("combineSummaries")) = 1
    /\ sResult.kind # "throw"
    /\ sPc = "combined" =>
         \A k \in CallsOf("combineSummaries") :
           /\ sLog[k].status # "pending"
           /\ sLog[k].status = "error" =>
                /\ sFinal = join(sSummaries, Rep("\n", 2))
                /\ sFinal # <<>>

\* the combination of three different summaries failed
C9_Witness ==
  /\ sPc = "combined"
  /\ Len(sSummaries) = 3
  /\ sSummaries[1] # sSummaries[2]
  /\ sSummaries[1] # <<>>
  /\ \E k \in CallsOf("combineSummaries") : sLog[k].status = "error"
  /\ sFinal = Cat(sSummaries[1], Cat(Rep("\n", 2),
                Cat(sSummaries[2], Cat(Rep("\n", 2), sSummaries[3]))))

\* C10: a document that yields no chunk makes summarizeText report that
\* there is no content, without a model invocation and without a summary
C10_NoContentIsAnError ==
  splitTextIntoChunks(sText, ChunkChars) = <<>> =>
    /\ sLog = <<>>
    /\ sResult.kind # "return"
    /\ sPc \in {"start", "thrown"}
    /\ sPc = "thrown" =>
         sResult = [kind |-> "throw",
                    value |-> Cat(SummarizationFailedPrefix, NoTextContentMessage)]

\* C11: on the single-call path a model invocation that fails with a
\* permanent error makes summarizeText throw 'Summarization failed: ' followed
\* by the error's message; nothing is returned as the summary
C11_SingleCallFailureThrows ==
  (/\ StrLen(sText) < SingleCallLimit
   /\ sLog # <<>>
   /\ sLog[1].status = "error"
   /\ ~isRetryable(sLog[1].text)) =>
    /\ sPc = "thrown"
    /\ sResult = Rethrow(sLog[1].text)

\* C12: a summary summarizeText returns is at most the ceiling
\* max(200, floor(0.55 * length of the document)) long, or it is the
\* truncation at the ceiling followed by the marker '...' after a compression
\* call that failed
C12_CeilingEnforced ==
  sResult.kind = "return" =>
    \/ StrLen(sResult.value) <= maxFinalCharLength(sText)
    \/ /\ \E k \in CallsOf("compressSummary") : sLog[k].status = "error"
       /\ StrLen(sResult.value) = maxFinalCharLength(sText) + 3
       /\ Drop(sResult.value, maxFinalCharLength(sText)) = Rep(".", 3)

\* ------------------------------------------------------------------------
\* Claims about the budgets of summarizeText
\* ------------------------------------------------------------------------

\* v is the larger of lo and the floor of num / den (den > 0): the floor of
\* a quotient is the integer k with den * k <= num < den * (k + 1)
IsMaxOfFloor(v, lo, num, den) ==
  IF num >= den * lo THEN den * v <= num /\ num < den * (v + 1)
  ELSE v = lo

\* C18: for a text of L characters and n chunks the total target is
\* max(200, floor(L * 0.50)), the ceiling max(200, floor(L * 0.55)) and the
\* target per chunk max(50, floor(total target / n)); the total target is at
\* least 200 and at most the ceiling, the target per chunk at least 50; the
\* budgets are determined by L and n
C18_Budgets ==
  bPc = "computed" =>
    /\ IsMaxOfFloor(bTotalTarget, 200, 50 * StrLen(bText), 100)
    /\ IsMaxOfFloor(bCeiling, 200, 55 * StrLen(bText), 100)
    /\ IsMaxOfFloor(bPerChunk, 50, bTotalTarget, bChunkCount)
    /\ bTotalTarget >= 200
    /\ bPerChunk >= 50
    /\ bTotalTarget <= bCeiling

\* the budgets of a text of 30,003 characters in 4 chunks, each of which is
\* rounded down: 15001, 16501 and 3750
C18_Witness ==
  /\ bPc = "computed"
  /\ StrLen(bText) = 30003
  /\ Len(bText) = 2
  /\ bChunkCount = 4
  /\ bTotalTarget = 15001
  /\ bCeiling = 16501
  /\ bPerChunk = 3750

\* ------------------------------------------------------------------------
\* Claims about compressSummary
\* ------------------------------------------------------------------------

RECURSIVE CharAt(_, _)
\* s[i - 1] of JavaScript: the i-th character of s, 1 <= i <= s.length
CharAt(s, i) == IF i <= s[1].n THEN s[1].c ELSE CharAt(Tail(s), i - s[1].n)

\* C19: when its model invocation fails compressSummary returns: for a
\* summary longer than maxChars its first maxChars characters followed by
\* '...', for another summary the summary itself; it does not throw
C19_CompressFallback ==
  (zPc = "returned" /\ ~zOutcome.ok) =>
    /\ zResult.kind = "return"
    /\ IF StrLen(zSummary) > zMaxChars
       THEN /\ StrLen(zResult.value) = zMaxChars + 3
            /\ \A i \in 1..zMaxChars :
                 CharAt(zResult.value, i) = CharAt(zSummary, i)
            /\ \A i \in (zMaxChars + 1)..(zMaxChars + 3) :
                 CharAt(zResult.value, i) = "."
       ELSE zResult.value = zSummary

\* the invocation failed for a summary of four characters, which ends with
\* a dot after two, and a maximum of two: two characters and the marker
C19_Witness ==
  /\ zPc = "returned"
  /\ ~zOutcome.ok
  /\ StrLen(zSummary) = 4
  /\ zMaxChars = 2
  /\ CharAt(zSummary, 1) = "a"
  /\ CharAt(zSummary, 2) = "."
  /\ CharAt(zSummary, 3) = "a"
  /\ zResult = [kind |-> "return", value |-> Lit(<<"a", ".", ".", ".", ".">>)]

\* ------------------------------------------------------------------------
\* Claims about callGeminiAPI
\* ------------------------------------------------------------------------

\* every model invocation of the call that settled failed with a message
\* that carries a marker of an overload or a rate limit
AllTransient(call) ==
  \A k \in 1..Len(call.outcomes) :
    ~call.outcomes[k].ok /\ isRetryable(call.outcomes[k].text)

\* C6: callGeminiAPI with retries >= 1 never invokes the model more than
\* retries times; when every invocation fails with a transient error it
\* invokes it exactly retries times and returns the tagged placeholder
C6_RetriesExactly ==
  gCall.retries >= 1 =>
    /\ gCall.invocations <= gCall.retries
    /\ gCall.pc \in {"call", "invoking", "waiting", "returned"}
    /\ (gCall.pc = "returned" /\ AllTransient(gCall)) =>
         /\ gCall.invocations = gCall.retries
         /\ Len(gCall.outcomes) = gCall.retries
         /\ gCall.value =
              Cat(Cat(ErrChunkPrefix, gCall.outcomes[gCall.retries].text),
                  Lit(<<"]">>))

\* three attempts failed with an overload or a rate limit, two backoffs were
\* waited out, and the call returned the placeholder
C6_Witness ==
  /\ gCall.pc = "returned"
  /\ gCall.retries = 3
  /\ gCall.invocations = 3
  /\ AllTransient(gCall)
  /\ Len(gCall.outcomes) = 3
  /\ Len(gCall.waits) = 2
  /\ gCall.value = Cat(Cat(ErrChunkPrefix, gCall.outcomes[3].text), Lit(<<"]">>))

\* the markers of an overload or of a rate limit
TransientMarkers ==
  {Lit(<<"5", "0", "3">>),
   Lit(<<"o", "v", "e", "r", "l", "o", "a", "d", "e", "d">>),
   Lit(<<"4", "2", "9">>),
   Lit(<<"r", "a", "t", "e", " ", "l", "i", "m", "i", "t">>)}

\* a failure whose message carries none of the markers
Permanent(outcome) ==
  /\ ~outcome.ok
  /\ \A marker \in TransientMarkers : ~includes(outcome.text, marker)

\* C17: an attempt that fails with an error without a marker is the last of
\* its call: no wait and no attempt follows, the call returns the tagged
\* placeholder and does not throw; when it is the first attempt the model was
\* invoked once.  Every wait follows a failure that carries a marker, with
\* attempts remaining
C17_PermanentNeverRetried ==
  /\ gCall.pc \in {"call", "invoking", "waiting", "returned"}
  /\ \A k \in 1..Len(gCall.outcomes) :
       Permanent(gCall.outcomes[k]) =>
         /\ k = Len(gCall.outcomes)
         /\ gCall.pc = "returned"
         /\ gCall.invocations = k
         /\ Len(gCall.waits) = k - 1
         /\ gCall.value =
              Cat(Cat(ErrChunkPrefix, gCall.outcomes[k].text), Lit(<<"]">>))
  /\ Len(gCall.waits) <= Len(gCall.outcomes)
  /\ \A k \in 1..Len(gCall.waits) :
       /\ ~gCall.outcomes[k].ok
       /\ ~Permanent(gCall.outcomes[k])
       /\ k < gCall.retries

\* the first attempt of a call with three attempts failed with an error
\* without a marker: one invocation, no wait, the placeholder
C17_Witness ==
  /\ gCall.pc = "returned"
  /\ gCall.retries = 3
  /\ Len(gCall.outcomes) = 1
  /\ Permanent(gCall.outcomes[1])
  /\ gCall.invocations = 1
  /\ gCall.waits = <<>>
  /\ gCall.value = Cat(Cat(ErrChunkPrefix, gCall.outcomes[1].text), Lit(<<"]">>))

\* C20: the k-th wait of a call is delay * 2^(k-1), so each wait is twice
\* the one before and longer; the k-th wait follows the k-th failed attempt
\* and is followed by an attempt: none precedes the first attempt, none
\* follows the last
C20_ExponentialBackoff ==
  /\ \A k \in 1..Len(gCall.waits) :
       /\ gCall.waits[k] = gCall.delay * (2 ^ (k - 1))
       /\ k > 1 => /\ gCall.waits[k] = 2 * gCall.waits[k - 1]
                   /\ gCall.waits[k] > gCall.waits[k - 1]
       /\ k <= Len(gCall.outcomes) /\ ~gCall.outcomes[k].ok
       /\ k <= gCall.retries - 1
  /\ gCall.invocations = 0 => gCall.waits = <<>>
  /\ gCall.pc = "waiting" =>
       /\ Len(gCall.waits) = gCall.invocations
       /\ gCall.attempt < gCall.retries
  /\ (gCall.pc \in {"invoking", "returned"} /\ gCall.invocations >= 1) =>
       Len(gCall.waits) = gCall.invocations - 1

\* a call with the defaults failed three times with a transient error and
\* waited 1000 ms, then 2000 ms
C20_Witness ==
  /\ gCall.pc = "returned"
  /\ gCall.retries = DefaultRetries
  /\ gCall.delay = DefaultDelay
  /\ gCall.invocations = 3
  /\ gCall.waits = <<1000, 2000>>

\* ------------------------------------------------------------------------
\* Claims about the /api/summarize handler
\* ------------------------------------------------------------------------

\* C10, for the handler: a file whose text yields no section is answered
\* with an error, not with a summary, and without a model invocation
C10_HandlerNoContentIsAnError ==
  \A r \in Requests :
    (/\ hReq[r].pc = "responded"
     /\ hApiKey
     /\ hReq[r].file.kind \in {"txt", "pdf"}
     /\ hReq[r].chunks = <<>>) =>
      /\ hReq[r].invocations = 0
      /\ hReq[r].res.status # 200
      /\ "summary" \notin hReq[r].res.fields

\* C15: every successful response of /api/summarize carries the summary and
\* the lengths of the original text and of the summary, the fields the UI
\* reads
C15_ResponseHasLengths ==
  \A r \in Requests :
    (hReq[r].pc = "responded" /\ hReq[r].res.status = 200) =>
      {"summary", "originalLength", "summaryLength"} \subseteq hReq[r].res.fields

\* the summary the handler pushes for an answer of the model: its trimmed
\* text, or the placeholder that carries the error's message
SummaryOf(answer) ==
  IF answer.ok THEN trim(answer.text)
  ELSE Cat(Cat(ErrChunkPrefix, answer.text), Lit(<<"]">>))

\* the sections of the text of the request's own file
OwnSections(r) ==
  splitTextIntoSections(hReq[r].file.text,
                        summaryInputSize(targetSummaryWords(hReq[r].file.text)),
                        hTokenizer)

\* a successful response holds the summaries of the answers to the prompts of
\* the request's own chunks, in chunk order, and their number
C16_OwnSummaries ==
  \A r \in Requests :
    (hReq[r].pc = "responded" /\ hReq[r].res.status = 200) =>
      /\ hReq[r].chunks = OwnSections(r)
      /\ hReq[r].res.chunks = Len(OwnSections(r))
      /\ Len(hAnswers[r]) = Len(OwnSections(r))
      /\ \A i \in 1..Len(OwnSections(r)) : hAnswers[r][i].chunk = OwnSections(r)[i]
      /\ hReq[r].res.summary =
           join([i \in 1..Len(hAnswers[r]) |-> SummaryOf(hAnswers[r][i])],
                Rep("\n", 2))

\* a step of one request leaves the locals of every other request, and what
\* the requests share, as they were
C16_NoInterference ==
  /\ hApiKey' = hApiKey
  /\ hTokenizer' = hTokenizer
  /\ \A r \in Requests :
       hReq'[r] # hReq[r] => \A q \in Requests \ {r} : hReq'[q] = hReq[q]

\* C16: of two requests handled concurrently each is answered with the
\* summaries of its own chunks, in chunk order, and its chunk count, and no
\* step of one changes the chunks, summaries or parameters of the other
C16_RequestsIsolated == []C16_OwnSummaries /\ [][C16_NoInterference]_vars

\* both requests were answered with the summaries of their own two sections,
\* which differ, after steps of one were taken while the other was in flight
C16_Witness ==
  /\ hOverlap
  /\ \A r \in Requests :
       /\ hReq[r].pc = "responded"
       /\ hReq[r].res.status = 200
       /\ hReq[r].res.chunks = 2
       /\ hReq[r].res.summary =
            Cat(SummaryOf(hAnswers[r][1]),
                Cat(Rep("\n", 2), SummaryOf(hAnswers[r][2])))
  /\ hReq[1].file # hReq[2].file
  /\ hReq[1].res.summary # hReq[2].res.summary
  /\ hAnswers[1][1] # hAnswers[1][2]

\* the status the handler answers a request with: 400 without a file, 500
\* without the key or when the text cannot be extracted, 200 otherwise
ExpectedStatus(r) ==
  IF hReq[r].file.kind = "none" THEN 400
  ELSE IF ~hApiKey \/ hReq[r].file.kind \notin {"txt", "pdf"} THEN 500
  ELSE 200

\* a request has at most one response, has it exactly when its handler is
\* done, with the status of its case, and has made at most retries model
\* invocations per chunk
C21_AtMostOneResponse ==
  \A r \in Requests :
    /\ hReq[r].sent <= 1
    /\ hReq[r].sent = 1 <=> hReq[r].pc = "responded"
    /\ hReq[r].sent = 1 => hReq[r].res.status = ExpectedStatus(r)
    /\ hReq[r].invocations <= DefaultRetries * Len(hReq[r].chunks)

\* C21: when every model invocation and every backoff settles, every request
\* is in the end answered, once: with 400 without a file, 500 without the
\* key or on an error thrown, 200 and the summary otherwise; it makes at most
\* retries model invocations per chunk
C21_ExactlyOneResponse ==
  /\ []C21_AtMostOneResponse
  /\ \A r \in Requests : <>[](hReq[r].sent = 1)

\* a request of two chunks was answered once, with the summary, after three
\* model invocations for each chunk, the most there can be
C21_Witness ==
  \E r \in Requests :
    /\ hReq[r].pc = "responded"
    /\ hReq[r].sent = 1
    /\ hReq[r].res.status = 200
    /\ Len(hReq[r].chunks) = 2
    /\ hReq[r].invocations = 6

\* ------------------------------------------------------------------------
\* Claims about the component App
\* ------------------------------------------------------------------------

\* C22: a summary that is not empty, and the stats, were taken from the
\* response to a request for the file that is selected now; a response for a
\* file selected before is never stored as the summary or stats of the file
\* selected after it
C22_SummaryOfSelectedFile ==
  /\ uSummary # <<>> => uSummaryOf = uFile
  /\ uStats # <<>> => uStatsOf = uFile

=========================================================================
